---- MODULE Spec2Model ----
(***************************************************************************)
(* Model of ov::genai::GenerationConfig (src/cpp/src/generation_config.cpp) *)
(* : population from a JSON document and from an ov::AnyMap, the derived   *)
(* token budget, the decoding-mode predicates and validate().              *)
(*                                                                         *)
(* size_t values are integers modulo 2^SizeBits; floats are integers in    *)
(* tenths (10 stands for 1.0f) with one extra value for NaN.               *)
(***************************************************************************)
EXTENDS Integers, Sequences, FiniteSets, TLC

VARIABLES cfg, pc, last

vars == <<cfg, pc, last>>

-----------------------------------------------------------------------------
(* Bounds of the model *)

\* width of size_t in the model (64 in the build)
SizeBits == 8

\* largest number of keys one JSON document or one AnyMap holds
MaxKeys == 1

-----------------------------------------------------------------------------
(* Machine types *)

Modulus == 2 ^ SizeBits

\* SIZE_MAX, the "unset" sentinel of max_new_tokens and max_length
SIZE_MAX == Modulus - 1

\* a float that is not a number; every ordered comparison with it is false
NaN == 1000000

FloatGt(a, b) == a # NaN /\ b # NaN /\ a > b

FloatLe(a, b) == a # NaN /\ b # NaN /\ a <= b

-----------------------------------------------------------------------------
(* The data model *)

FieldNames ==
    { "max_new_tokens", "max_length", "ignore_eos", "num_beam_groups",
      "num_beams", "diversity_penalty", "length_penalty",
      "num_return_sequences", "no_repeat_ngram_size", "stop_criteria",
      "temperature", "top_p", "top_k", "do_sample", "repetition_penalty",
      "eos_token_id" }

\* keys a source may hold: the fields, the legacy alias, and a key that
\* names no field
Keys == FieldNames \cup { "early_stopping", "pad_token_id" }

FieldType(name) ==
    CASE name \in { "ignore_eos", "do_sample" } -> "bool"
      [] name = "stop_criteria" -> "StopCriteria"
      [] name \in { "diversity_penalty", "length_penalty", "temperature",
                    "top_p", "repetition_penalty" } -> "float"
      [] name = "eos_token_id" -> "int64_t"
      [] OTHER -> "size_t"

\* the default-constructed configuration
DefaultConfig ==
    [ max_new_tokens       |-> SIZE_MAX,
      max_length           |-> SIZE_MAX,
      ignore_eos           |-> FALSE,
      num_beam_groups      |-> 1,
      num_beams            |-> 1,
      diversity_penalty    |-> 0,
      length_penalty       |-> 10,
      num_return_sequences |-> 1,
      no_repeat_ngram_size |-> 0,
      stop_criteria        |-> "HEURISTIC",
      temperature          |-> 10,
      top_p                |-> 10,
      top_k                |-> SIZE_MAX,
      do_sample            |-> FALSE,
      repetition_penalty   |-> 10,
      eos_token_id         |-> -1 ]

-----------------------------------------------------------------------------
(* Values of a key-value source (nlohmann::json value, ov::Any) *)

Absent == [ type |-> "absent",  b |-> FALSE, n |-> 0, s |-> "" ]

VNull == [ type |-> "null",    b |-> FALSE, n |-> 0, s |-> "" ]

VBool(x) == [ type |-> "boolean", b |-> x,     n |-> 0, s |-> "" ]

VNum(x) == [ type |-> "number",  b |-> FALSE, n |-> x, s |-> "" ]

VStr(x) == [ type |-> "string",  b |-> FALSE, n |-> 0, s |-> x ]

\* data.contains(name), config_map.count(name)
contains(data, name) == data[name].type # "absent"

\* data[name].get<T>(), config_map.at(name).as<T>()
get(v, T) ==
    CASE T = "bool" -> v.b
      [] T = "StopCriteria" -> v.s
      [] T = "size_t" -> v.n % Modulus
      [] OTHER -> v.n

read_json_param(data, name, param) ==
    IF contains(data, name) THEN get(data[name], FieldType(name)) ELSE param

read_anymap_param(config_map, name, param) ==
    IF contains(config_map, name)
    THEN get(config_map[name], FieldType(name))
    ELSE param

-----------------------------------------------------------------------------
(* GenerationConfig::GenerationConfig(const std::string& json_path) *)

\* variant of the decoding that swaps the two boolean encodings
early_stopping_swapped(data, stop_criteria) ==
    IF contains(data, "early_stopping")
    THEN LET v == data["early_stopping"]
         IN  IF v.type = "string" /\ v.s = "never" THEN "NEVER"
             ELSE IF v.type = "boolean" /\ v.b = TRUE THEN "HEURISTIC"
             ELSE IF v.type = "boolean" /\ v.b = FALSE THEN "EARLY"
             ELSE stop_criteria
    ELSE stop_criteria

\* the early_stopping block of the constructor: the value of stop_criteria
\* after it, given the value before it
early_stopping(data, stop_criteria) ==
    IF contains(data, "early_stopping")
    THEN LET v == data["early_stopping"]
         IN  IF v.type = "string" /\ v.s = "never" THEN "NEVER"
             ELSE IF v.type = "boolean" /\ v.b = TRUE THEN "EARLY"
             ELSE IF v.type = "boolean" /\ v.b = FALSE THEN "HEURISTIC"
             ELSE stop_criteria
    ELSE stop_criteria

\* variant of the constructor that also reads ignore_eos and stop_criteria
GenerationConfig_all_fields(data) ==
    LET d == DefaultConfig
    IN  [ max_new_tokens       |-> read_json_param(data, "max_new_tokens", d.max_new_tokens),
          max_length           |-> read_json_param(data, "max_length", d.max_length),
          ignore_eos           |-> read_json_param(data, "ignore_eos", d.ignore_eos),
          num_beam_groups      |-> read_json_param(data, "num_beam_groups", d.num_beam_groups),
          num_beams            |-> read_json_param(data, "num_beams", d.num_beams),
          diversity_penalty    |-> read_json_param(data, "diversity_penalty", d.diversity_penalty),
          length_penalty       |-> read_json_param(data, "length_penalty", d.length_penalty),
          num_return_sequences |-> read_json_param(data, "num_return_sequences", d.num_return_sequences),
          no_repeat_ngram_size |-> read_json_param(data, "no_repeat_ngram_size", d.no_repeat_ngram_size),
          stop_criteria        |-> early_stopping(data,
                                     read_json_param(data, "stop_criteria", d.stop_criteria)),
          temperature          |-> read_json_param(data, "temperature", d.temperature),
          top_p                |-> read_json_param(data, "top_p", d.top_p),
          top_k                |-> read_json_param(data, "top_k", d.top_k),
          do_sample            |-> read_json_param(data, "do_sample", d.do_sample),
          repetition_penalty   |-> read_json_param(data, "repetition_penalty", d.repetition_penalty),
          eos_token_id         |-> read_json_param(data, "eos_token_id", d.eos_token_id) ]

\* the configuration the constructor builds from the parsed document: the
\* members start at their defaults, ignore_eos and stop_criteria are not
\* read by name, stop_criteria is set from early_stopping only
GenerationConfig(data) ==
    LET d == DefaultConfig
    IN  [ max_new_tokens       |-> read_json_param(data, "max_new_tokens", d.max_new_tokens),
          max_length           |-> read_json_param(data, "max_length", d.max_length),
          ignore_eos           |-> d.ignore_eos,
          num_beam_groups      |-> read_json_param(data, "num_beam_groups", d.num_beam_groups),
          num_beams            |-> read_json_param(data, "num_beams", d.num_beams),
          diversity_penalty    |-> read_json_param(data, "diversity_penalty", d.diversity_penalty),
          length_penalty       |-> read_json_param(data, "length_penalty", d.length_penalty),
          num_return_sequences |-> read_json_param(data, "num_return_sequences", d.num_return_sequences),
          no_repeat_ngram_size |-> read_json_param(data, "no_repeat_ngram_size", d.no_repeat_ngram_size),
          stop_criteria        |-> early_stopping(data, d.stop_criteria),
          temperature          |-> read_json_param(data, "temperature", d.temperature),
          top_p                |-> read_json_param(data, "top_p", d.top_p),
          top_k                |-> read_json_param(data, "top_k", d.top_k),
          do_sample            |-> read_json_param(data, "do_sample", d.do_sample),
          repetition_penalty   |-> read_json_param(data, "repetition_penalty", d.repetition_penalty),
          eos_token_id         |-> read_json_param(data, "eos_token_id", d.eos_token_id) ]

-----------------------------------------------------------------------------
(* GenerationConfig::update_generation_config(const ov::AnyMap&) *)

\* variant that, like the constructor, does not read ignore_eos
update_generation_config_no_ignore_eos(c, config_map) ==
    [ max_new_tokens       |-> read_anymap_param(config_map, "max_new_tokens", c.max_new_tokens),
      max_length           |-> read_anymap_param(config_map, "max_length", c.max_length),
      ignore_eos           |-> c.ignore_eos,
      num_beam_groups      |-> read_anymap_param(config_map, "num_beam_groups", c.num_beam_groups),
      num_beams            |-> read_anymap_param(config_map, "num_beams", c.num_beams),
      diversity_penalty    |-> read_anymap_param(config_map, "diversity_penalty", c.diversity_penalty),
      length_penalty       |-> read_anymap_param(config_map, "length_penalty", c.length_penalty),
      num_return_sequences |-> read_anymap_param(config_map, "num_return_sequences", c.num_return_sequences),
      no_repeat_ngram_size |-> read_anymap_param(config_map, "no_repeat_ngram_size", c.no_repeat_ngram_size),
      stop_criteria        |-> read_anymap_param(config_map, "stop_criteria", c.stop_criteria),
      temperature          |-> read_anymap_param(config_map, "temperature", c.temperature),
      top_p                |-> read_anymap_param(config_map, "top_p", c.top_p),
      top_k                |-> read_anymap_param(config_map, "top_k", c.top_k),
      do_sample            |-> read_anymap_param(config_map, "do_sample", c.do_sample),
      repetition_penalty   |-> read_anymap_param(config_map, "repetition_penalty", c.repetition_penalty),
      eos_token_id         |-> read_anymap_param(config_map, "eos_token_id", c.eos_token_id) ]

\* the configuration c after update_generation_config(config_map)
update_generation_config(c, config_map) ==
    [ max_new_tokens       |-> read_anymap_param(config_map, "max_new_tokens", c.max_new_tokens),
      max_length           |-> read_anymap_param(config_map, "max_length", c.max_length),
      ignore_eos           |-> read_anymap_param(config_map, "ignore_eos", c.ignore_eos),
      num_beam_groups      |-> read_anymap_param(config_map, "num_beam_groups", c.num_beam_groups),
      num_beams            |-> read_anymap_param(config_map, "num_beams", c.num_beams),
      diversity_penalty    |-> read_anymap_param(config_map, "diversity_penalty", c.diversity_penalty),
      length_penalty       |-> read_anymap_param(config_map, "length_penalty", c.length_penalty),
      num_return_sequences |-> read_anymap_param(config_map, "num_return_sequences", c.num_return_sequences),
      no_repeat_ngram_size |-> read_anymap_param(config_map, "no_repeat_ngram_size", c.no_repeat_ngram_size),
      stop_criteria        |-> read_anymap_param(config_map, "stop_criteria", c.stop_criteria),
      temperature          |-> read_anymap_param(config_map, "temperature", c.temperature),
      top_p                |-> read_anymap_param(config_map, "top_p", c.top_p),
      top_k                |-> read_anymap_param(config_map, "top_k", c.top_k),
      do_sample            |-> read_anymap_param(config_map, "do_sample", c.do_sample),
      repetition_penalty   |-> read_anymap_param(config_map, "repetition_penalty", c.repetition_penalty),
      eos_token_id         |-> read_anymap_param(config_map, "eos_token_id", c.eos_token_id) ]

-----------------------------------------------------------------------------
(* GenerationConfig::get_max_new_tokens(size_t prompt_length) *)

\* variant in which a set max_length takes priority over max_new_tokens
get_max_new_tokens_length_first(c, prompt_length) ==
    IF c.max_length # SIZE_MAX
    THEN (c.max_length - prompt_length) % Modulus
    ELSE c.max_new_tokens

\* variant that clamps the budget at zero instead of wrapping
get_max_new_tokens_clamped(c, prompt_length) ==
    IF c.max_new_tokens # SIZE_MAX
    THEN c.max_new_tokens
    ELSE IF prompt_length > c.max_length THEN 0
         ELSE c.max_length - prompt_length

\* size_t subtraction: the difference is reduced modulo 2^SizeBits
get_max_new_tokens(c, prompt_length) ==
    IF c.max_new_tokens # SIZE_MAX
    THEN c.max_new_tokens
    ELSE (c.max_length - prompt_length) % Modulus

-----------------------------------------------------------------------------
(* Mode classification *)

is_beam_search(c) == c.num_beams > 1

\* variant that tests the beam width for equality with 1
is_greedy_decoding_eq_one(c) == ~c.do_sample /\ c.num_beams = 1

is_greedy_decoding(c) == ~c.do_sample /\ ~is_beam_search(c)

is_multinomial(c) == c.do_sample

-----------------------------------------------------------------------------
(* GenerationConfig::validate() *)

\* OPENVINO_ASSERT in sequence: the position of the first assertion whose
\* condition is false, 0 when every condition holds
FirstFailed(conds) ==
    IF \A i \in 1..Len(conds) : conds[i]
    THEN 0
    ELSE CHOOSE i \in 1..Len(conds) :
             ~conds[i] /\ \A j \in 1..(i - 1) : conds[j]

\* variant without the sampling / beam search exclusivity assertion
validate_no_exclusivity(c) ==
    FirstFailed(<<
        TRUE,
        c.max_new_tokens > 0,
        c.max_new_tokens # SIZE_MAX \/ c.max_length > 0,
        ~c.do_sample \/ c.top_k > 0,
        ~c.do_sample \/ (FloatGt(c.top_p, 0) /\ FloatLe(c.top_p, 10)),
        ~c.do_sample \/ FloatGt(c.temperature, 0),
        FloatGt(c.repetition_penalty, 0),
        ~c.ignore_eos \/ c.max_new_tokens # SIZE_MAX \/ c.max_length # SIZE_MAX,
        c.eos_token_id # -1 \/ c.max_new_tokens # SIZE_MAX \/ c.max_length # SIZE_MAX >>)

\* variant whose max_length assertion accepts zero
validate_length_nonneg(c) ==
    FirstFailed(<<
        ~c.do_sample \/ c.num_beams = 1,
        c.max_new_tokens > 0,
        c.max_new_tokens # SIZE_MAX \/ c.max_length >= 0,
        ~c.do_sample \/ c.top_k > 0,
        ~c.do_sample \/ (FloatGt(c.top_p, 0) /\ FloatLe(c.top_p, 10)),
        ~c.do_sample \/ FloatGt(c.temperature, 0),
        FloatGt(c.repetition_penalty, 0),
        ~c.ignore_eos \/ c.max_new_tokens # SIZE_MAX \/ c.max_length # SIZE_MAX,
        c.eos_token_id # -1 \/ c.max_new_tokens # SIZE_MAX \/ c.max_length # SIZE_MAX >>)

\* variant that checks top_k whether or not sampling is on
validate_top_k_always(c) ==
    FirstFailed(<<
        ~c.do_sample \/ c.num_beams = 1,
        c.max_new_tokens > 0,
        c.max_new_tokens # SIZE_MAX \/ c.max_length > 0,
        c.top_k > 0,
        ~c.do_sample \/ (FloatGt(c.top_p, 0) /\ FloatLe(c.top_p, 10)),
        ~c.do_sample \/ FloatGt(c.temperature, 0),
        FloatGt(c.repetition_penalty, 0),
        ~c.ignore_eos \/ c.max_new_tokens # SIZE_MAX \/ c.max_length # SIZE_MAX,
        c.eos_token_id # -1 \/ c.max_new_tokens # SIZE_MAX \/ c.max_length # SIZE_MAX >>)

\* variant without the ignore_eos assertion
validate_no_ignore_eos(c) ==
    FirstFailed(<<
        ~c.do_sample \/ c.num_beams = 1,
        c.max_new_tokens > 0,
        c.max_new_tokens # SIZE_MAX \/ c.max_length > 0,
        ~c.do_sample \/ c.top_k > 0,
        ~c.do_sample \/ (FloatGt(c.top_p, 0) /\ FloatLe(c.top_p, 10)),
        ~c.do_sample \/ FloatGt(c.temperature, 0),
        FloatGt(c.repetition_penalty, 0),
        TRUE,
        c.eos_token_id # -1 \/ c.max_new_tokens # SIZE_MAX \/ c.max_length # SIZE_MAX >>)

\* the assertions of validate() in source order; 0 means validate() returns,
\* k > 0 means the k-th assertion throws
validate(c) ==
    FirstFailed(<<
        ~c.do_sample \/ c.num_beams = 1,
        c.max_new_tokens > 0,
        c.max_new_tokens # SIZE_MAX \/ c.max_length > 0,
        ~c.do_sample \/ c.top_k > 0,
        ~c.do_sample \/ (FloatGt(c.top_p, 0) /\ FloatLe(c.top_p, 10)),
        ~c.do_sample \/ FloatGt(c.temperature, 0),
        FloatGt(c.repetition_penalty, 0),
        ~c.ignore_eos \/ c.max_new_tokens # SIZE_MAX \/ c.max_length # SIZE_MAX,
        c.eos_token_id # -1 \/ c.max_new_tokens # SIZE_MAX \/ c.max_length # SIZE_MAX >>)

-----------------------------------------------------------------------------
(* Inputs *)

\* the values a source may hold under each key, of the type the field has;
\* early_stopping takes every JSON encoding the constructor distinguishes
SourceValues(name) ==
    CASE name = "max_new_tokens" -> { VNum(50), VNum(0) }
      [] name = "max_length" -> { VNum(100), VNum(0) }
      [] name = "ignore_eos" -> { VBool(TRUE), VBool(FALSE) }
      [] name = "num_beam_groups" -> { VNum(1), VNum(2) }
      [] name = "num_beams" -> { VNum(0), VNum(2) }
      [] name = "diversity_penalty" -> { VNum(0), VNum(10) }
      [] name = "length_penalty" -> { VNum(10), VNum(20) }
      [] name = "num_return_sequences" -> { VNum(1), VNum(3) }
      [] name = "no_repeat_ngram_size" -> { VNum(0), VNum(3) }
      [] name = "stop_criteria" -> { VStr("EARLY"), VStr("NEVER") }
      [] name = "temperature" -> { VNum(7), VNum(0) }
      [] name = "top_p" -> { VNum(5), VNum(15) }
      [] name = "top_k" -> { VNum(40), VNum(0) }
      [] name = "do_sample" -> { VBool(TRUE), VBool(FALSE) }
      [] name = "repetition_penalty" -> { VNum(12), VNum(0) }
      [] name = "eos_token_id" -> { VNum(2), VNum(-1) }
      [] name = "early_stopping" ->
             { VStr("never"), VStr("maybe"), VBool(TRUE), VBool(FALSE),
               VNum(1), VNull }
      [] OTHER -> { VNum(0) }

EmptySource == [ name \in Keys |-> Absent ]

\* the sources that hold at most n keys
RECURSIVE Sources(_)
Sources(n) ==
    IF n = 0
    THEN { EmptySource }
    ELSE LET smaller == Sources(n - 1)
         IN  smaller \cup
             UNION { UNION { { [ src EXCEPT ![name] = v ] : v \in SourceValues(name) }
                             : name \in { k \in Keys : ~contains(src, k) } }
                     : src \in smaller }

JsonDocs == Sources(MaxKeys)

AnyMaps == Sources(MaxKeys)

PromptLengths == { 0, 10, 30, 100, 101, SIZE_MAX }

\* configurations over the fields validate() and the queries read; every
\* one is reachable by assigning the public members
Configs ==
    { [ DefaultConfig EXCEPT
          !.max_new_tokens = mnt, !.max_length = ml, !.ignore_eos = ie,
          !.num_beams = nb, !.temperature = t, !.top_p = tp, !.top_k = tk,
          !.do_sample = ds, !.repetition_penalty = rp, !.eos_token_id = eos ] :
        mnt \in { 0, 50, SIZE_MAX }, ml \in { 0, 100, SIZE_MAX },
        ie \in BOOLEAN, nb \in { 0, 1, 2 }, t \in { -10, 0, 10, NaN },
        tp \in { -5, 0, 5, 10, 15, NaN }, tk \in { 0, 40, SIZE_MAX },
        ds \in BOOLEAN, rp \in { 0, 10 }, eos \in { -1, 2 } }

-----------------------------------------------------------------------------
(* The state machine *)

\* the record of the most recent call: its name, its source or argument,
\* and what it returned (ret: validate's failed assertion or the token
\* budget; retb: a predicate's result)
Call(op, src, arg, ret, retb) ==
    [ op |-> op, src |-> src, arg |-> arg, ret |-> ret, retb |-> retb ]

NoCall == Call("none", EmptySource, 0, 0, FALSE)

\* a default-constructed configuration, nothing called yet
Init ==
    /\ cfg = DefaultConfig
    /\ pc = "default"
    /\ last = NoCall

\* a populated configuration, nothing called yet
InitQueries ==
    /\ cfg \in Configs
    /\ pc = "updated"
    /\ last = NoCall

\* GenerationConfig(json_path): the file does not open, or does not parse,
\* or the configuration is built from the document
LoadJson ==
    /\ pc = "default"
    /\ \E outcome \in { "not_open", "parse_error", "parsed" } :
         IF outcome = "parsed"
         THEN \E data \in JsonDocs :
                /\ cfg' = GenerationConfig(data)
                /\ pc' = "loaded"
                /\ last' = Call("GenerationConfig", data, 0, 0, FALSE)
         ELSE /\ cfg' = cfg
              /\ pc' = "failed"
              /\ last' = Call("GenerationConfig", EmptySource, 0, 1, FALSE)

UpdateGenerationConfig ==
    /\ pc \in { "default", "loaded" }
    /\ \E config_map \in AnyMaps :
         /\ cfg' = update_generation_config(cfg, config_map)
         /\ pc' = "updated"
         /\ last' = Call("update_generation_config", config_map, 0, 0, FALSE)

\* validate() is const: it returns or throws, the configuration is untouched
Validate ==
    /\ pc \in { "default", "loaded", "updated" }
    /\ pc' = IF validate(cfg) = 0 THEN "validated" ELSE "rejected"
    /\ last' = Call("validate", EmptySource, 0, validate(cfg), FALSE)
    /\ UNCHANGED cfg

Usable == pc \in { "default", "loaded", "updated", "validated" }

GetMaxNewTokens ==
    /\ Usable
    /\ \E prompt_length \in PromptLengths :
         last' = Call("get_max_new_tokens", EmptySource, prompt_length,
                      get_max_new_tokens(cfg, prompt_length), FALSE)
    /\ UNCHANGED <<cfg, pc>>

IsGreedyDecoding ==
    /\ Usable
    /\ last' = Call("is_greedy_decoding", EmptySource, 0, 0, is_greedy_decoding(cfg))
    /\ UNCHANGED <<cfg, pc>>

IsBeamSearch ==
    /\ Usable
    /\ last' = Call("is_beam_search", EmptySource, 0, 0, is_beam_search(cfg))
    /\ UNCHANGED <<cfg, pc>>

IsMultinomial ==
    /\ Usable
    /\ last' = Call("is_multinomial", EmptySource, 0, 0, is_multinomial(cfg))
    /\ UNCHANGED <<cfg, pc>>

Next ==
    \/ LoadJson
    \/ UpdateGenerationConfig
    \/ Validate
    \/ GetMaxNewTokens
    \/ IsGreedyDecoding
    \/ IsBeamSearch
    \/ IsMultinomial

Spec == Init /\ [][Next]_vars

NextQueries ==
    \/ Validate
    \/ GetMaxNewTokens
    \/ IsGreedyDecoding
    \/ IsBeamSearch
    \/ IsMultinomial

SpecQueries == InitQueries /\ [][NextQueries]_vars

-----------------------------------------------------------------------------
(* Properties *)

MaxNewTokensSet == cfg.max_new_tokens # SIZE_MAX

MaxLengthSet == cfg.max_length # SIZE_MAX

ModesTrue ==
    { m \in { "greedy", "beam_search", "multinomial" } :
        \/ m = "greedy" /\ is_greedy_decoding(cfg)
        \/ m = "beam_search" /\ is_beam_search(cfg)
        \/ m = "multinomial" /\ is_multinomial(cfg) }

\* C1: on every configuration validate() has accepted, exactly one of
\* is_greedy_decoding(), is_beam_search(), is_multinomial() is true.
C1_ExactlyOneMode ==
    pc = "validated" => Cardinality(ModesTrue) = 1

\* a validated configuration with beam width 0, which counts as greedy
C1_Witness ==
    /\ pc = "validated"
    /\ cfg.num_beams = 0
    /\ ModesTrue = { "greedy" }

\* C2: a configuration validate() has accepted has max_new_tokens set, or
\* max_length set, or eos_token_id set with ignore_eos false; validate()
\* throws when ignore_eos is true and both caps are unset, and when
\* eos_token_id is -1 and both caps are unset.
C2_StoppingSignal ==
    /\ pc = "validated" =>
         \/ MaxNewTokensSet
         \/ MaxLengthSet
         \/ (cfg.eos_token_id # -1 /\ ~cfg.ignore_eos)
    /\ (last.op = "validate" /\ ~MaxNewTokensSet /\ ~MaxLengthSet
          /\ (cfg.ignore_eos \/ cfg.eos_token_id = -1)) =>
         (pc = "rejected" /\ last.ret # 0)

\* validate() has thrown on ignore_eos with no cap although eos_token_id is set
C2_Witness ==
    /\ last.op = "validate"
    /\ pc = "rejected"
    /\ cfg.ignore_eos
    /\ cfg.eos_token_id = 2
    /\ ~MaxNewTokensSet /\ ~MaxLengthSet
    /\ last.ret = 8

\* C3 as stated: validate() throws whenever max_new_tokens is unset and
\* max_length is zero or unset.
C3_RejectsZeroOrUnsetLength ==
    (last.op = "validate" /\ ~MaxNewTokensSet
       /\ cfg.max_length \in { 0, SIZE_MAX }) => pc = "rejected"

\* C3 amended: validate() throws whenever max_new_tokens is unset and
\* max_length is zero, whatever eos_token_id and ignore_eos are; an unset
\* max_length passes the length assertion.
C3_RejectsZeroLength ==
    /\ (last.op = "validate" /\ ~MaxNewTokensSet /\ cfg.max_length = 0) =>
         (pc = "rejected" /\ last.ret \in 1..3)
    /\ (last.op = "validate" /\ ~MaxNewTokensSet /\ ~MaxLengthSet) =>
         last.ret # 3

\* the length assertion has thrown on max_length = 0 with eos_token_id set
C3_Witness ==
    /\ last.op = "validate"
    /\ pc = "rejected"
    /\ last.ret = 3
    /\ ~MaxNewTokensSet
    /\ cfg.max_length = 0
    /\ cfg.eos_token_id = 2
    /\ ~cfg.ignore_eos

\* C4: get_max_new_tokens(prompt_length) returns max_new_tokens whenever it
\* is set, whatever max_length is; when it is unset and prompt_length <=
\* max_length it returns max_length - prompt_length.
C4_TokenBudget ==
    last.op = "get_max_new_tokens" =>
      /\ MaxNewTokensSet => last.ret = cfg.max_new_tokens
      /\ (~MaxNewTokensSet /\ last.arg <= cfg.max_length) =>
           last.ret + last.arg = cfg.max_length

\* max_length = 100 alone gives 70 at prompt length 30
C4_Witness ==
    /\ last.op = "get_max_new_tokens"
    /\ ~MaxNewTokensSet
    /\ cfg.max_length = 100
    /\ last.arg = 30
    /\ last.ret = 70

\* the field values a source asks for
Requested(src, name) == get(src[name], FieldType(name))

\* C5: update_generation_config(map) gives every field whose key is in the
\* map the map's value and leaves every other field as it was; keys that
\* name no field change nothing; applying the map again changes nothing.
C5_UpdateFrame ==
    [][ last'.op = "update_generation_config" =>
          /\ \A name \in FieldNames :
               cfg'[name] = IF contains(last'.src, name)
                            THEN Requested(last'.src, name)
                            ELSE cfg[name]
          /\ update_generation_config(cfg', last'.src) = cfg' ]_vars

\* temperature came from the file and survived an update that sets top_k
C5_Witness ==
    /\ last.op = "update_generation_config"
    /\ contains(last.src, "top_k")
    /\ cfg.top_k = 40
    /\ cfg.temperature = 7

\* C6 as stated: on either path every field name of the table present in
\* the source overwrites its field, and early_stopping is decoded.
C6_SameKeysOnBothPaths ==
    (last.op \in { "GenerationConfig", "update_generation_config" }
       /\ pc \in { "loaded", "updated" }) =>
      /\ \A name \in FieldNames :
           contains(last.src, name) => cfg[name] = Requested(last.src, name)
      /\ (contains(last.src, "early_stopping")
            /\ last.src["early_stopping"] = VBool(TRUE)
            /\ ~contains(last.src, "stop_criteria")) =>
           cfg.stop_criteria = "EARLY"

\* the keys each path reads into the field of the same name
JsonFieldKeys == FieldNames \ { "ignore_eos", "stop_criteria" }

AnyMapFieldKeys == FieldNames

\* what the early_stopping alias asks for, given the value it replaces
Decoded(v, prior) ==
    CASE v = VStr("never") -> "NEVER"
      [] v = VBool(TRUE) -> "EARLY"
      [] v = VBool(FALSE) -> "HEURISTIC"
      [] OTHER -> prior

\* C6 amended: the two paths read different keys.  The constructor reads
\* every field name except ignore_eos and stop_criteria, and the
\* early_stopping alias; ignore_eos stays at its default and stop_criteria
\* is set from early_stopping only.  update_generation_config reads every
\* field name, and not early_stopping.  On each path a key it reads
\* overwrites its field, and a field with no such key keeps its prior value.
C6_KeysOfEachPath ==
    [][ /\ (last'.op = "GenerationConfig" /\ pc' = "loaded") =>
             \A name \in FieldNames :
               cfg'[name] =
                 IF name \in JsonFieldKeys /\ contains(last'.src, name)
                 THEN Requested(last'.src, name)
                 ELSE IF name = "stop_criteria"
                           /\ contains(last'.src, "early_stopping")
                      THEN Decoded(last'.src["early_stopping"],
                                   DefaultConfig.stop_criteria)
                      ELSE DefaultConfig[name]
        /\ last'.op = "update_generation_config" =>
             \A name \in FieldNames :
               cfg'[name] =
                 IF name \in AnyMapFieldKeys /\ contains(last'.src, name)
                 THEN Requested(last'.src, name)
                 ELSE cfg[name] ]_vars

\* a document that sets ignore_eos has been loaded and the field is still false
C6_Witness ==
    /\ last.op = "GenerationConfig"
    /\ pc = "loaded"
    /\ last.src["ignore_eos"] = VBool(TRUE)
    /\ cfg.ignore_eos = FALSE

\* C7: loading a document that holds early_stopping succeeds and leaves
\* stop_criteria NEVER for "never", EARLY for true, HEURISTIC for false
\* and, for any other encoding, the value it had before (the default
\* of the object under construction).
C7_EarlyStopping ==
    (last.op = "GenerationConfig" /\ last.ret = 0
       /\ contains(last.src, "early_stopping")) =>
      /\ pc = "loaded"
      /\ LET v == last.src["early_stopping"]
         IN  /\ (v.type = "string" /\ v.s = "never") => cfg.stop_criteria = "NEVER"
             /\ (v.type = "boolean" /\ v.b) => cfg.stop_criteria = "EARLY"
             /\ (v.type = "boolean" /\ ~v.b) => cfg.stop_criteria = "HEURISTIC"
             /\ (v.type \notin { "string", "boolean" }
                   \/ (v.type = "string" /\ v.s # "never")) =>
                  cfg.stop_criteria = DefaultConfig.stop_criteria

\* early_stopping: true has been loaded as EARLY
C7_Witness ==
    /\ last.op = "GenerationConfig"
    /\ pc = "loaded"
    /\ last.src["early_stopping"] = VBool(TRUE)
    /\ cfg.stop_criteria = "EARLY"

\* C8 as stated: is_greedy_decoding() is true iff do_sample is false and
\* num_beams equals 1.
C8_GreedyIffOneBeam ==
    last.op = "is_greedy_decoding" =>
      (last.retb <=> (~cfg.do_sample /\ cfg.num_beams = 1))

\* C8 amended: is_greedy_decoding() is true iff do_sample is false and
\* num_beams is at most 1, so it is true for num_beams = 0 as well.
C8_GreedyIffNoBeamSearch ==
    last.op = "is_greedy_decoding" =>
      (last.retb <=> (~cfg.do_sample /\ cfg.num_beams <= 1))

\* is_greedy_decoding() has returned true on a validated num_beams = 0
C8_Witness ==
    /\ last.op = "is_greedy_decoding"
    /\ pc = "validated"
    /\ cfg.num_beams = 0
    /\ last.retb

\* the configurations that differ from cfg in the sampling-only fields only
SamplingVariants ==
    { [ cfg EXCEPT !.top_k = tk, !.top_p = tp, !.temperature = t ] :
        tk \in { 0, 40, SIZE_MAX }, tp \in { -5, 0, 5, 10, 15, NaN },
        t \in { -10, 0, 10, NaN } }

\* C9: with do_sample false the outcome of validate() (return, or the
\* assertion that throws) is the same for every top_k, top_p and
\* temperature; with do_sample true validate() throws whenever top_k = 0,
\* top_p is outside (0, 1] or temperature <= 0.
C9_SamplingFields ==
    last.op = "validate" =>
      /\ ~cfg.do_sample =>
           \A other \in SamplingVariants : validate(other) = last.ret
      /\ (cfg.do_sample
            /\ (\/ cfg.top_k = 0
                \/ ~(FloatGt(cfg.top_p, 0) /\ FloatLe(cfg.top_p, 10))
                \/ FloatLe(cfg.temperature, 0))) =>
           (pc = "rejected" /\ last.ret # 0)

\* validate() has accepted top_k = 0, top_p = 1.5, temperature = 0 with
\* sampling off
C9_Witness ==
    /\ last.op = "validate"
    /\ pc = "validated"
    /\ ~cfg.do_sample
    /\ cfg.top_k = 0
    /\ cfg.top_p = 15
    /\ cfg.temperature = 0

\* C10: with max_new_tokens unset and prompt_length > max_length,
\* get_max_new_tokens returns max_length - prompt_length wrapped to the
\* width of size_t, which is greater than max_length and not zero; this
\* happens on configurations validate() has accepted too.
C10_Wraparound ==
    (last.op = "get_max_new_tokens" /\ ~MaxNewTokensSet
       /\ last.arg > cfg.max_length) =>
      /\ last.ret = Modulus - (last.arg - cfg.max_length)
      /\ last.ret > cfg.max_length
      /\ last.ret # 0

\* a validated configuration with max_length = 100 asked at prompt length 101
C10_Witness ==
    /\ last.op = "get_max_new_tokens"
    /\ pc = "validated"
    /\ ~MaxNewTokensSet
    /\ cfg.max_length = 100
    /\ last.arg = 101
    /\ last.ret = SIZE_MAX

====
